---- MODULE Spec2Model ----
(***************************************************************************)
(* ReactoChem: Reaction (reactions.py) and Reactor (reactors.py).          *)
(*                                                                         *)
(* Numbers are exact extended rationals <<n, d>>: d > 0 is the fraction    *)
(* n/d in lowest terms, <<1,0>> and <<-1,0>> are +inf and -inf, <<0,0>> is *)
(* NaN (the values numpy floats take on division by zero).                 *)
(* A dict is the sequence of its <<key, value>> items in insertion order.  *)
(* The ODE integrator (scipy solve_ivp) is an external collaborator: its   *)
(* result is any trajectory that starts at the initial state, possibly cut *)
(* short when the integration fails part-way.                              *)
(***************************************************************************)
EXTENDS Integers, Sequences, FiniteSets, TLC

VARIABLES args, pc, self, call, loc, sim, ret, hist

vars == <<args, pc, self, call, loc, sim, ret, hist>>

(***************************************************************************)
(* Bounds of the model.                                                    *)
(***************************************************************************)
\* samples per trajectory (np.linspace(0, x, 1000) scaled down)
NumSamples == 3
\* largest number of moles / molar flow the integrator reports (0..MaxMoles)
MaxMoles == 2
\* largest max_iterations a client passes to find_steady_state
MaxIterArg == 2
\* largest concentration of the dicts a Reactor is constructed from (-1..)
MaxConcentration == 0

\* the longest species list passed to Reaction(...)
MaxSpeciesLen == 2

(***************************************************************************)
(* Program constants.                                                      *)
(***************************************************************************)
\* guess *= 10
GuessFactor == 10
\* x_steady_state = 3*tau
TauFactor == 3
\* find_steady_state(max_iterations=10), the default find_conversion uses
DefaultMaxIterations == 10
\* find_steady_state(threshold=1e-3): 1/ThresholdDen
ThresholdDen == 1000

(***************************************************************************)
(* Float arithmetic.                                                       *)
(***************************************************************************)
RECURSIVE Gcd(_, _)
Gcd(a, b) == IF b = 0 THEN a ELSE Gcd(b, a % b)

IAbs(n) == IF n < 0 THEN -n ELSE n

Sign(n) == IF n < 0 THEN -1 ELSE IF n > 0 THEN 1 ELSE 0

Norm(n, d) ==
    IF d = 0 THEN <<Sign(n), 0>>
    ELSE LET g == Gcd(IAbs(n), IAbs(d))
         IN  <<Sign(d) * (n \div g), IAbs(d) \div g>>

R(n) == <<n, 1>>

Zero == R(0)

NaN == <<0, 0>>

IsNaN(a) == a = NaN

IsFinite(a) == a[2] # 0

RNeg(a) == <<-a[1], a[2]>>

RAdd(a, b) ==
    IF a[2] = 0 /\ b[2] = 0
    THEN (IF a = b THEN a ELSE NaN)
    ELSE Norm(a[1] * b[2] + b[1] * a[2], a[2] * b[2])

RSub(a, b) == RAdd(a, RNeg(b))

RMul(a, b) == Norm(a[1] * b[1], a[2] * b[2])

RDiv(a, b) == Norm(a[1] * b[2], a[2] * b[1])

RAbs(a) == <<IAbs(a[1]), a[2]>>

RLt(a, b) ==
    IF IsNaN(a) \/ IsNaN(b) THEN FALSE
    ELSE IF a[2] = 0 /\ b[2] = 0 THEN a[1] < b[1]
    ELSE a[1] * b[2] < b[1] * a[2]

RLe(a, b) ==
    IF IsNaN(a) \/ IsNaN(b) THEN FALSE
    ELSE IF a[2] = 0 /\ b[2] = 0 THEN a[1] <= b[1]
    ELSE a[1] * b[2] <= b[1] * a[2]

RGt(a, b) == RLt(b, a)

\* Python's min(a, b): b when b < a, else a
RMin(a, b) == IF RLt(b, a) THEN b ELSE a

(***************************************************************************)
(* Dicts and string order.                                                 *)
(***************************************************************************)
\* the identifiers of the model, in Python's str order
Alphabet == <<"A", "B", "C", "Z">>

Rank(s) == CHOOSE i \in 1..Len(Alphabet) : Alphabet[i] = s

StrLt(a, b) == Rank(a) < Rank(b)

Range(s) == {s[i] : i \in 1..Len(s)}

Keys(d) == {d[i][1] : i \in 1..Len(d)}

KeySeq(d) == [i \in 1..Len(d) |-> d[i][1]]

Values(d) == [i \in 1..Len(d) |-> d[i][2]]

Has(d, k) == k \in Keys(d)

Get(d, k) == d[CHOOSE i \in 1..Len(d) : d[i][1] = k][2]

\* d[k] = v: a new key goes last, an old key keeps its place
DictSet(d, k, v) ==
    IF Has(d, k)
    THEN [i \in 1..Len(d) |-> IF d[i][1] = k THEN <<k, v>> ELSE d[i]]
    ELSE Append(d, <<k, v>>)

RECURSIVE DictOf(_)
\* dict(items)
DictOf(items) ==
    IF items = <<>> THEN <<>>
    ELSE LET n == Len(items)
         IN  DictSet(DictOf(SubSeq(items, 1, n - 1)), items[n][1], items[n][2])

\* zip(a, b)
Zip(a, b) ==
    LET n == IF Len(a) < Len(b) THEN Len(a) ELSE Len(b)
    IN  [i \in 1..n |-> <<a[i], b[i]>>]

RECURSIVE SortedInsert(_, _)
SortedInsert(s, it) ==
    IF s = <<>> THEN <<it>>
    ELSE IF StrLt(it[1], s[1][1]) THEN <<it>> \o s
    ELSE <<s[1]>> \o SortedInsert(Tail(s), it)

RECURSIVE Sorted(_)
\* sorted(d.items()), keys being distinct
Sorted(items) ==
    IF items = <<>> THEN <<>>
    ELSE SortedInsert(Sorted(Tail(items)), items[1])

\* dict(sorted(d.items()))
SortedDict(d) == DictOf(Sorted(d))

(***************************************************************************)
(* Reaction (reactions.py).  A rate law k*s1*...*sn is [k, syms].          *)
(***************************************************************************)
\* rate_law.free_symbols
FreeSymbols(rate_law) == Range(rate_law.syms)

\* the symbols are refused only when none of them is a species
ReactionInitErrorAllSymbols(name, species, coeffs, rate_law) ==
    IF Len(species) # Len(coeffs) THEN "DimensionMismatch"
    ELSE IF /\ FreeSymbols(rate_law) # {}
            /\ \A symbol \in FreeSymbols(rate_law) :
                symbol \notin Keys(DictOf(Zip(species, coeffs)))
    THEN "InvalidSpecies"
    ELSE IF Cardinality(Range(species)) # Len(species) THEN "DuplicateSpecies"
    ELSE ""

\* Reaction.__init__: the error it raises, "" when it returns
ReactionInitError(name, species, coeffs, rate_law) ==
    IF Len(species) # Len(coeffs) THEN "DimensionMismatch"
    ELSE IF \E symbol \in FreeSymbols(rate_law) :
                symbol \notin Keys(DictOf(Zip(species, coeffs)))
    THEN "InvalidSpecies"
    ELSE IF Cardinality(Range(species)) # Len(species) THEN "DuplicateSpecies"
    ELSE ""

\* Reaction.__init__: the attributes it sets
Reaction(name, species, coeffs, rate_law) ==
    [name |-> name,
     species_coeffs |-> DictOf(Zip(species, coeffs)),
     rate_law |-> rate_law]

\* an expression that still holds a free symbol: not a number
Unevaluated == <<0, -1>>

RECURSIVE SubsProduct(_, _, _)
SubsProduct(k, syms, concentrations) ==
    IF syms = <<>> THEN k
    ELSE SubsProduct(RMul(k, Get(concentrations, Head(syms))), Tail(syms),
                     concentrations)

\* Reaction.calculate_rate: rate_law.subs(concentrations)
calculate_rate(reaction, concentrations) ==
    IF FreeSymbols(reaction.rate_law) \subseteq Keys(concentrations)
    THEN SubsProduct(reaction.rate_law.k, reaction.rate_law.syms, concentrations)
    ELSE Unevaluated

(***************************************************************************)
(* Reactor.__init__ (reactors.py).                                         *)
(***************************************************************************)
RECURSIVE AllSpecies(_)
\* all_species.update(reaction.species_coeffs.keys()) over the reactions
AllSpecies(reactions) ==
    IF reactions = <<>> THEN {}
    ELSE Keys(Head(reactions).species_coeffs) \cup AllSpecies(Tail(reactions))

missing_species_bulk(a) ==
    IF a.reactor_type \in {"Batch", "Fed-batch", "CSTR"}
    THEN AllSpecies(a.reactions) \ Keys(a.initial_bulk_concentrations_dict)
    ELSE {}

\* the inlet dict tested for a PFR alone
missing_species_inlet_pfr_only(a) ==
    IF a.reactor_type # "PFR" THEN {}
    ELSE AllSpecies(a.reactions) \ Keys(a.inlet_concentrations_dict)

missing_species_inlet(a) ==
    IF a.reactor_type = "Batch" THEN {}
    ELSE AllSpecies(a.reactions) \ Keys(a.inlet_concentrations_dict)

\* only the first item of the dict tested
HasNegativeFirst(d) == d # <<>> /\ RLt(d[1][2], Zero)

\* some concentration of the dict is < 0
HasNegative(d) == \E i \in 1..Len(d) : RLt(d[i][2], Zero)

\* locals()[parameter] in (0, {}) for a parameter the reactor type requires
MissingRequiredParameter(a) ==
    /\ a.reactor_type \in {"Fed-batch", "CSTR", "PFR"}
    /\ \/ a.inlet_concentrations_dict = <<>>
       \/ a.flow_rate = Zero

\* volume < 0 in place of volume <= 0
InvalidVolumeNegativeOnly(a) == RLt(a.volume, Zero)

\* volume <= 0
InvalidVolume(a) == RLe(a.volume, Zero)

\* self.reactor_type != "Batch" and flow_rate <= 0
InvalidFlowRate(a) == a.reactor_type # "Batch" /\ RLe(a.flow_rate, Zero)

\* initial_volume >= self.volume in place of initial_volume > self.volume
InvalidInitialVolumeAtFull(a) ==
    /\ a.reactor_type # "PFR"
    /\ (~RLt(a.initial_volume, a.volume) \/ RLt(a.initial_volume, Zero))

\* self.reactor_type != "PFR" and
\* (initial_volume > self.volume or initial_volume < 0)
InvalidInitialVolume(a) ==
    /\ a.reactor_type # "PFR"
    /\ (RGt(a.initial_volume, a.volume) \/ RLt(a.initial_volume, Zero))

\* the error Reactor.__init__ raises, "" when it returns
ReactorInitError(a) ==
    IF InvalidVolume(a) THEN "Volume"
    ELSE IF missing_species_bulk(a) # {} THEN "MissingSpeciesBulk"
    ELSE IF missing_species_inlet(a) # {} THEN "MissingSpeciesInlet"
    ELSE IF a.reactor_type # "PFR" /\ HasNegative(a.initial_bulk_concentrations_dict)
    THEN "NegativeInitialConcentration"
    ELSE IF a.reactor_type \in {"Fed-batch", "CSTR", "PFR"}
            /\ HasNegative(a.inlet_concentrations_dict)
    THEN "NegativeInletConcentration"
    ELSE IF MissingRequiredParameter(a) THEN "MissingParameter"
    ELSE IF InvalidFlowRate(a) THEN "FlowRate"
    ELSE IF InvalidInitialVolume(a) THEN "InitialVolume"
    ELSE ""

\* the attributes Reactor.__init__ sets when it returns; a PFR gets no
\* initial_bulk_concentrations_dict attribute (has_bulk = FALSE)
ReactorInitSelf(a) ==
    [reactor_type |-> a.reactor_type,
     volume |-> a.volume,
     reactions |-> a.reactions,
     has_bulk |-> a.reactor_type # "PFR",
     initial_bulk_concentrations_dict |->
        IF a.reactor_type # "PFR"
        THEN SortedDict(a.initial_bulk_concentrations_dict) ELSE <<>>,
     initial_volume |-> a.initial_volume,
     flow_rate |-> a.flow_rate,
     inlet_concentrations_dict |-> SortedDict(a.inlet_concentrations_dict)]

\* no Reactor object
NoReactor == [reactor_type |-> "none"]

(***************************************************************************)
(* numpy vectors: sequences of numbers, with numpy's broadcasting of a     *)
(* length-1 operand.                                                       *)
(***************************************************************************)
Broadcastable(a, b) == Len(a) = Len(b) \/ Len(a) = 1 \/ Len(b) = 1

BLen(a, b) == IF Len(a) = 1 THEN Len(b) ELSE Len(a)

At(a, i) == IF Len(a) = 1 THEN a[1] ELSE a[i]

VAdd(a, b) == [i \in 1..BLen(a, b) |-> RAdd(At(a, i), At(b, i))]

VSub(a, b) == [i \in 1..BLen(a, b) |-> RSub(At(a, i), At(b, i))]

VScale(a, k) == [i \in 1..Len(a) |-> RMul(a[i], k)]

VDivide(a, k) == [i \in 1..Len(a) |-> RDiv(a[i], k)]

RECURSIVE DotRow(_, _)
\* sum of row[i]*v[i]
DotRow(row, v) ==
    IF row = <<>> THEN Zero
    ELSE RAdd(RMul(Head(row), Head(v)), DotRow(Tail(row), Tail(v)))

(***************************************************************************)
(* Reactor: the helpers of the mass balance.                               *)
(***************************************************************************)
KnownTypes == {"Batch", "Fed-batch", "CSTR", "PFR"}

\* the keys run zips the state vector with: those of the bulk dict for
\* Batch, Fed-batch and CSTR, those of the inlet dict otherwise
RunKeys(r) ==
    IF r.reactor_type \in {"Batch", "Fed-batch", "CSTR"}
    THEN KeySeq(r.initial_bulk_concentrations_dict)
    ELSE KeySeq(r.inlet_concentrations_dict)

\* num_species of initialize_coeffs_matrix: its first test names the types
\* "Batch" and "Fed-batch, CSTR" (one string)
CoeffsNumSpecies(r) ==
    IF r.reactor_type \in {"Batch", "Fed-batch, CSTR"}
    THEN Len(r.initial_bulk_concentrations_dict)
    ELSE Len(r.inlet_concentrations_dict)

\* coeffs_matrix[j, i] = ... with j outside the matrix: IndexError
CoeffsMatrixError(r) ==
    \E i \in 1..Len(r.reactions), j \in 1..Len(RunKeys(r)) :
        /\ Has(r.reactions[i].species_coeffs, RunKeys(r)[j])
        /\ j > CoeffsNumSpecies(r)

\* the loop over the species stops one species short
initialize_coeffs_matrix_short(r) ==
    [j \in 1..CoeffsNumSpecies(r) |->
        [i \in 1..Len(r.reactions) |->
            IF j < Len(RunKeys(r))
               /\ Has(r.reactions[i].species_coeffs, RunKeys(r)[j])
            THEN Get(r.reactions[i].species_coeffs, RunKeys(r)[j])
            ELSE Zero]]

\* Reactor.initialize_coeffs_matrix: rows are species, columns reactions
initialize_coeffs_matrix(r) ==
    [j \in 1..CoeffsNumSpecies(r) |->
        [i \in 1..Len(r.reactions) |->
            IF j <= Len(RunKeys(r))
               /\ Has(r.reactions[i].species_coeffs, RunKeys(r)[j])
            THEN Get(r.reactions[i].species_coeffs, RunKeys(r)[j])
            ELSE Zero]]

\* the volume fed in, without the limit of the vessel
CurrentVolumeUnbounded(r, x) ==
    RAdd(r.initial_volume, RMul(r.flow_rate, x))

\* min(self.initial_volume + self.flow_rate*x, self.volume)
CurrentVolume(r, x) ==
    RMin(RAdd(r.initial_volume, RMul(r.flow_rate, x)), r.volume)

\* Reactor.calculate_concentration (a known reactor type)
calculate_concentration(r, x, y) ==
    IF r.reactor_type = "Batch" THEN VDivide(y, r.volume)
    ELSE IF r.reactor_type \in {"Fed-batch", "CSTR"}
    THEN (IF CurrentVolume(r, x) = Zero THEN VScale(y, Zero)
          ELSE VDivide(y, CurrentVolume(r, x)))
    ELSE VDivide(y, r.flow_rate)

\* Reactor.calc_reaction_rates
calc_reaction_rates(r, concentrations_dict) ==
    [i \in 1..Len(r.reactions) |->
        calculate_rate(r.reactions[i], concentrations_dict)]

\* Reactor.calc_transformation_rates: np.dot(coeffs_matrix, reaction_rates)
calc_transformation_rates(coeffs_matrix, reaction_rates) ==
    [j \in 1..Len(coeffs_matrix) |-> DotRow(coeffs_matrix[j], reaction_rates)]

\* transformation rates inside ODE, from the state y at x
ODERates(r, x, y) ==
    calc_transformation_rates(
        initialize_coeffs_matrix(r),
        calc_reaction_rates(r, DictOf(Zip(RunKeys(r),
                                          calculate_concentration(r, x, y)))))

\* the inlet term of ODE
InletFlow(r, flow) == VScale(Values(r.inlet_concentrations_dict), flow)

\* ODE of a CSTR before the outlet term is subtracted
CSTRGain(r, x, y) ==
    VAdd(VScale(ODERates(r, x, y), CurrentVolume(r, x)),
         InletFlow(r, r.flow_rate))

\* the outlet closed while volume <= self.volume
CSTROutletClosed(r, x, y) ==
    VScale(calculate_concentration(r, x, y),
           IF RLe(CurrentVolume(r, x), r.volume) THEN Zero ELSE r.flow_rate)

\* the outlet term of a CSTR
CSTROutlet(r, x, y) ==
    VScale(calculate_concentration(r, x, y),
           IF RLt(CurrentVolume(r, x), r.volume) THEN Zero ELSE r.flow_rate)

\* operands of ODE that numpy cannot broadcast: ValueError
ODEShapeError(r, x, y) ==
    /\ r.reactor_type = "CSTR"
    /\ ~Broadcastable(CSTRGain(r, x, y), CSTROutlet(r, x, y))

\* the feed of a Fed-batch reactor never switched off
ODEFeedAlways(r, x, y) ==
    IF r.reactor_type = "Batch" THEN VScale(ODERates(r, x, y), r.volume)
    ELSE IF r.reactor_type = "Fed-batch"
    THEN VAdd(VScale(ODERates(r, x, y), CurrentVolume(r, x)),
              InletFlow(r, r.flow_rate))
    ELSE IF r.reactor_type = "CSTR"
    THEN VSub(CSTRGain(r, x, y), CSTROutlet(r, x, y))
    ELSE ODERates(r, x, y)

\* run.ODE: dy/dx (a known reactor type)
ODE(r, x, y) ==
    IF r.reactor_type = "Batch" THEN VScale(ODERates(r, x, y), r.volume)
    ELSE IF r.reactor_type = "Fed-batch"
    THEN VAdd(VScale(ODERates(r, x, y), CurrentVolume(r, x)),
              InletFlow(r, IF RLt(CurrentVolume(r, x), r.volume)
                           THEN r.flow_rate ELSE Zero))
    ELSE IF r.reactor_type = "CSTR"
    THEN VSub(CSTRGain(r, x, y), CSTROutlet(r, x, y))
    ELSE ODERates(r, x, y)

\* the initial conditions of run (a known reactor type)
initial_y(r) ==
    IF r.reactor_type = "Batch"
    THEN VScale(Values(r.initial_bulk_concentrations_dict), r.volume)
    ELSE IF r.reactor_type \in {"Fed-batch", "CSTR"}
    THEN VScale(Values(r.initial_bulk_concentrations_dict), r.initial_volume)
    ELSE VScale(Values(r.inlet_concentrations_dict), r.flow_rate)

(***************************************************************************)
(* Reactor.run.                                                            *)
(***************************************************************************)
\* np.linspace(0, x, 1000), scaled to NumSamples points
linspace(x) ==
    [i \in 1..NumSamples |-> RDiv(RMul(x, R(i - 1)), R(NumSamples - 1))]

\* the amounts a sampled state of the integrator's result is made of
MolesVals == {R(m) : m \in 0..MaxMoles}

\* solve_ivp(ODE, [0, x], initial_y, t_eval=x_points): the samples up to the
\* point the integration got to, the first of them the initial state; no
\* sample at all when the first step fails
SolverResults(r, x) ==
    {[t |-> <<>>, y |-> <<>>]} \cup
    UNION {{[t |-> SubSeq(linspace(x), 1, n), y |-> <<initial_y(r)>> \o rest] :
                rest \in [1..(n - 1) -> [1..Len(initial_y(r)) -> MolesVals]]} :
           n \in 1..NumSamples}

\* the span test with < in place of <=
RunErrorNegativeOnly(r, x) ==
    IF r.reactor_type \in {"Batch", "Fed-batch", "CSTR"} /\ RLt(x, Zero)
    THEN "MissingSpan"
    ELSE IF r.reactor_type \notin KnownTypes THEN "UnboundLocal"
    ELSE IF RLe(x, Zero) THEN "SolverArgument"
    ELSE IF CoeffsMatrixError(r) THEN "Index"
    ELSE IF ODEShapeError(r, Zero, initial_y(r)) THEN "Shape"
    ELSE IF Len(ODE(r, Zero, initial_y(r))) \notin {Len(initial_y(r)), 1}
    THEN "Shape"
    ELSE ""

\* the error run raises before the integration starts, "" when there is none
RunError(r, x) ==
    IF r.reactor_type \in {"Batch", "Fed-batch", "CSTR"} /\ RLe(x, Zero)
    THEN "MissingSpan"
    ELSE IF r.reactor_type \notin KnownTypes THEN "UnboundLocal"
    ELSE IF RLe(x, Zero) THEN "SolverArgument"
    ELSE IF CoeffsMatrixError(r) THEN "Index"
    ELSE IF ODEShapeError(r, Zero, initial_y(r)) THEN "Shape"
    ELSE IF Len(ODE(r, Zero, initial_y(r))) \notin {Len(initial_y(r)), 1}
    THEN "Shape"
    ELSE ""

\* run has called solve_ivp when it raises error e or none
SolverInvoked(e) == e \notin {"MissingSpan", "UnboundLocal"}

\* the error run raises given the integrator's result
RunResultError(res) == IF res.t = <<>> THEN "Integration" ELSE ""

\* concentrations of run: one row per sample
Concentrations(r, res) ==
    [i \in 1..Len(res.t) |->
        IF r.reactor_type = "Batch" THEN VDivide(res.y[i], r.volume)
        ELSE IF r.reactor_type \in {"Fed-batch", "CSTR"}
        THEN (IF CurrentVolume(r, res.t[1]) = Zero /\ i = 1
              THEN [j \in 1..Len(res.y[i]) |-> NaN]
              ELSE VDivide(res.y[i], CurrentVolume(r, res.t[i])))
        ELSE VDivide(res.y[i], r.flow_rate)]

\* reaction_rates[:, i] of run
ReactionRates(r, res) ==
    [i \in 1..Len(res.t) |->
        calc_reaction_rates(r, DictOf(Zip(RunKeys(r), Concentrations(r, res)[i])))]

\* transformation_rates[:, i] = ..., broadcast to one entry per species
TransformationRates(r, res) ==
    [i \in 1..Len(res.t) |->
        LET tr == calc_transformation_rates(initialize_coeffs_matrix(r),
                                            ReactionRates(r, res)[i])
        IN  [j \in 1..Len(RunKeys(r)) |-> At(tr, j)]]

\* {key: rows[:, j]}
ColumnDict(keys, rows) ==
    DictOf([j \in 1..Len(keys) |->
                <<keys[j], [i \in 1..Len(rows) |-> rows[i][j]]>>])

\* [reaction.name for reaction in self.reactions]
ReactionNames(r) == [i \in 1..Len(r.reactions) |-> r.reactions[i].name]

\* the five components run computes under full_output or plot
FullOutput(r, res) ==
    <<res.t,
      ColumnDict(RunKeys(r), Concentrations(r, res)),
      ColumnDict(RunKeys(r), res.y),
      ColumnDict(ReactionNames(r), ReactionRates(r, res)),
      ColumnDict(RunKeys(r), TransformationRates(r, res))>>

\* what run returns
RunValue(r, res, plot, full_output) ==
    IF full_output THEN FullOutput(r, res)
    ELSE <<res.t, ColumnDict(RunKeys(r), Concentrations(r, res))>>

(***************************************************************************)
(* Reactor.find_steady_state and Reactor.find_conversion: the pure parts.  *)
(***************************************************************************)
\* np.any in place of np.all along the species axis
below_threshold_any(rates, threshold) ==
    [i \in 1..Len(rates) |->
        \E j \in 1..Len(rates[i]) : RLt(RAbs(rates[i][j]), threshold)]

\* np.all(np.abs(transformation_rates) < threshold, axis=1)
below_threshold(rates, threshold) ==
    [i \in 1..Len(rates) |->
        \A j \in 1..Len(rates[i]) : RLt(RAbs(rates[i][j]), threshold)]

\* np.any(b)
AnyTrue(b) == \E i \in 1..Len(b) : b[i]

\* np.where(b)[0][0], 1-based
FirstTrue(b) == CHOOSE i \in 1..Len(b) : b[i] /\ \A k \in 1..(i - 1) : ~b[k]

\* {key: d[key][idx] for key in d}
PickDict(d, idx) == [j \in 1..Len(d) |-> <<d[j][1], d[j][2][idx]>>]

\* what find_steady_state returns: x_steady_state and the four snapshots
\* taken at sample idx of the run's full output
SteadyStateData(r, res, x_steady_state, idx) ==
    <<x_steady_state,
      PickDict(FullOutput(r, res)[2], idx),
      PickDict(FullOutput(r, res)[3], idx),
      PickDict(FullOutput(r, res)[4], idx),
      PickDict(FullOutput(r, res)[5], idx)>>

\* tau in place of 3*tau
CSTRSteadyStateTau(r) == RDiv(r.volume, r.flow_rate)

\* x_steady_state of a CSTR: 3*tau, tau = volume/flow_rate
CSTRSteadyState(r) == RMul(R(TauFactor), RDiv(r.volume, r.flow_rate))

\* guess *= 10
NextGuess(guess) == RMul(guess, R(GuessFactor))

\* the loop test with <= in place of <
LoopContinuesInclusive(l) ==
    ~l.steady_state_reached /\ l.iteration_count <= l.max_iterations

\* the loop test of find_steady_state
LoopContinues(l) ==
    ~l.steady_state_reached /\ l.iteration_count < l.max_iterations

\* the inlet dict in every regime
ConversionDictInlet(r) == r.inlet_concentrations_dict

\* the dict find_conversion reads the initial concentration from
ConversionDict(r) ==
    IF r.reactor_type \in {"Batch", "Fed-batch", "CSTR"}
    THEN r.initial_bulk_concentrations_dict
    ELSE r.inlet_concentrations_dict

\* initial_concentration_specie*(1 - conversion_target)
final_concentration(initial_concentration, conversion_target) ==
    RMul(initial_concentration, RSub(R(1), conversion_target))

\* (initial - steady state)/initial
maximal_conversion(initial_concentration, concentration_steady_state) ==
    RDiv(RSub(initial_concentration, concentration_steady_state),
         initial_concentration)

\* the test of the target reversed
ConversionTooLow(conversion_target, maximal) == RLt(conversion_target, maximal)

\* conversion_target > maximal_conversion
ConversionTooHigh(conversion_target, maximal) == RGt(conversion_target, maximal)

\* < in place of <=
ConversionReachedStrictly(column, final) ==
    [i \in 1..Len(column) |-> RLt(column[i], final)]

\* concentrations_dict[specie] <= final_concentration_specie
ConversionReached(column, final) ==
    [i \in 1..Len(column) |-> RLe(column[i], final)]

\* what find_conversion returns, from sample idx of the run's full output
ConversionData(r, res, specie, idx) ==
    <<res.t[idx],
      <<<<specie, Get(FullOutput(r, res)[2], specie)[idx]>>>>,
      <<<<specie, Get(FullOutput(r, res)[3], specie)[idx]>>>>,
      PickDict(FullOutput(r, res)[4], idx),
      <<<<specie, Get(FullOutput(r, res)[5], specie)[idx]>>>>>>

(***************************************************************************)
(* Inputs.                                                                 *)
(***************************************************************************)
Half == <<1, 2>>

\* A -> 2 B at rate A
RxDouble == Reaction("R1", <<"A", "B">>, <<R(-1), R(2)>>,
                     [k |-> R(1), syms |-> <<"A">>])

\* A -> B at rate A, and B -> A at rate B
RxForward == Reaction("Rf", <<"A", "B">>, <<R(-1), R(1)>>,
                      [k |-> R(1), syms |-> <<"A">>])

RxBackward == Reaction("Rb", <<"A", "B">>, <<R(1), R(-1)>>,
                       [k |-> R(1), syms |-> <<"B">>])

\* A -> nothing at rate A
RxLoss == Reaction("R3", <<"A">>, <<R(-1)>>, [k |-> R(1), syms |-> <<"A">>])

Args(t, v, rx, bulk, iv, f, inlet) ==
    [reactor_type |-> t, volume |-> v, reactions |-> rx,
     initial_bulk_concentrations_dict |-> bulk, initial_volume |-> iv,
     flow_rate |-> f, inlet_concentrations_dict |-> inlet]

A1B0 == <<<<"A", R(1)>>, <<"B", R(0)>>>>

B0A1 == <<<<"B", R(0)>>, <<"A", R(1)>>>>

A1 == <<<<"A", R(1)>>>>

\* the reactors the calls are made on
RunArgs ==
    { Args("Batch", R(1), <<RxDouble>>, B0A1, R(0), R(0), <<>>),
      Args("Batch", R(2), <<RxForward, RxBackward>>, A1B0, R(0), R(0), <<>>),
      Args("Batch", R(1), <<>>, <<>>, R(0), R(0), <<>>),
      Args("Fed-batch", R(2), <<RxDouble>>, A1B0, R(0), R(1), A1B0),
      Args("Fed-batch", R(2), <<RxLoss>>, A1B0, R(1), R(1), A1),
      Args("Fed-batch", R(2), <<RxLoss>>, A1, R(1), R(1), A1B0),
      Args("CSTR", R(2), <<RxLoss>>, A1, R(1), R(1), A1),
      Args("CSTR", R(1), <<RxForward>>, A1B0, R(0), R(2), B0A1),
      Args("PFR", R(2), <<RxDouble>>, <<>>, R(0), R(1), B0A1),
      Args("Plug", R(2), <<RxLoss>>, A1, R(0), R(1), A1),
      Args("CSTR", R(2), <<RxLoss>>, A1, R(1), R(0), A1) }

\* run(x, plot, full_output)
RunSpans == {R(-1), R(0), R(2)}

\* find_steady_state(guess, threshold, max_iterations)
Guesses == {R(0), R(1)}

Thresholds == {<<1, ThresholdDen>>, R(2)}

\* find_conversion(specie, conversion_target, guess)
ConversionSpecies == {"A", "B", "C"}

ConversionTargets == {Half, R(1)}

ConversionGuesses == {<<1, 100>>}

\* calculate_rate(concentrations)
RateBindings == {A1B0, A1, <<<<"A", Half>>, <<"B", R(2)>>>>}

\* the arguments of Reactor(...) in the specification of construction
CtorTypes == {"Batch", "Fed-batch", "CSTR", "PFR", "Plug"}

CtorVolumes == {R(-1), R(0), R(1)}

CtorReactions == {<<>>, <<RxLoss>>, <<RxForward, RxBackward>>}

CtorConcentrations == {R(c) : c \in -1..MaxConcentration}

\* the dicts over the species A and B, in either insertion order
CtorDicts ==
    {<<>>}
    \cup {<<<<k, c>>>> : k \in {"A", "B"}, c \in CtorConcentrations}
    \cup {<<<<k[1], c1>>, <<k[2], c2>>>> :
             k \in {<<"A", "B">>, <<"B", "A">>},
             c1 \in CtorConcentrations, c2 \in CtorConcentrations}

CtorInitialVolumes == {R(-1), R(0), R(1), R(2)}

CtorFlowRates == {R(-1), R(0), R(1)}

CtorArgs ==
    {Args(t, v, rx, bulk, iv, f, inlet) :
        t \in CtorTypes, v \in CtorVolumes, rx \in CtorReactions,
        bulk \in CtorDicts, iv \in CtorInitialVolumes, f \in CtorFlowRates,
        inlet \in CtorDicts}

(***************************************************************************)
(* The state machine.                                                      *)
(***************************************************************************)
NoCall == [op |-> "none"]

NoRet == [op |-> "none", error |-> "", value |-> <<>>]

NoSim == [t |-> <<>>, y |-> <<>>]

NoLoc ==
    [caller |-> "", guess |-> Zero, threshold |-> Zero, max_iterations |-> 0,
     iteration_count |-> 0, steady_state_reached |-> FALSE,
     x_steady_state |-> Zero, specie |-> "", conversion_target |-> Zero,
     initial_concentration_specie |-> Zero,
     final_concentration_specie |-> Zero, steady_state_data |-> <<>>]

\* one call of self.run: who made it, the span, whether solve_ivp was
\* called, the error that ended the call or the caller's use of its result
\* (np.all along axis 1 of an array without species), whether some sample
\* was below the threshold
RunEntry(by, x, e, q) ==
    [by |-> by, x |-> x, solver |-> SolverInvoked(e), error |-> e,
     qualified |-> q]

\* the call ends: it raises e, or returns v when e = ""
Finish(op, e, v) ==
    /\ pc' = "done"
    /\ ret' = [op |-> op, error |-> e, value |-> v]

\* a method that rebinds self.volume
FrameVolumeRebound ==
    /\ args' = args
    /\ self' = [self EXCEPT !.volume = RAdd(@, R(1))]

\* none of the methods assigns an attribute of the Reactor
Frame == UNCHANGED <<args, self>>

\* Reactor(...)
Construct ==
    /\ pc = "new"
    /\ IF ReactorInitError(args) # ""
       THEN /\ pc' = "failed"
            /\ self' = NoReactor
            /\ ret' = [op |-> "__init__", error |-> ReactorInitError(args),
                       value |-> <<>>]
       ELSE /\ pc' = "idle"
            /\ self' = ReactorInitSelf(args)
            /\ ret' = NoRet
    /\ UNCHANGED <<args, call, loc, sim, hist>>

\* self.run(x, plot, full_output), called by the client
Run ==
    /\ pc = "idle"
    /\ \E x \in RunSpans, plot \in BOOLEAN, full_output \in BOOLEAN :
        /\ call' = [op |-> "run", x |-> x, plot |-> plot,
                    full_output |-> full_output]
        /\ IF RunError(self, x) # ""
           THEN /\ Finish("run", RunError(self, x), <<>>)
                /\ sim' = NoSim
                /\ hist' = <<RunEntry("client", x, RunError(self, x), FALSE)>>
           ELSE \E res \in SolverResults(self, x) :
                /\ hist' = <<RunEntry("client", x, RunResultError(res), FALSE)>>
                /\ IF RunResultError(res) # ""
                   THEN Finish("run", RunResultError(res), <<>>) /\ sim' = NoSim
                   ELSE /\ Finish("run", "", RunValue(self, res, plot, full_output))
                        /\ sim' = res
    /\ Frame
    /\ UNCHANGED loc

\* the client calls find_steady_state(guess, threshold, max_iterations)
FindSteadyState ==
    /\ pc = "idle"
    /\ \E guess \in Guesses, threshold \in Thresholds,
          max_iterations \in 0..MaxIterArg :
        /\ call' = [op |-> "find_steady_state", guess |-> guess,
                    threshold |-> threshold, max_iterations |-> max_iterations]
        /\ loc' = [NoLoc EXCEPT !.caller = "client", !.guess = guess,
                                !.threshold = threshold,
                                !.max_iterations = max_iterations]
    /\ pc' = "find_steady_state"
    /\ hist' = <<>>
    /\ Frame
    /\ UNCHANGED <<sim, ret>>

\* find_steady_state ends with the locals l: it raises e, or returns v
\* (taken from the trajectory res) to its caller
SteadyStateEnds(e, v, res, l) ==
    IF l.caller = "client"
    THEN Finish("find_steady_state", e, v) /\ sim' = res /\ loc' = l
    ELSE IF e # ""
    THEN Finish("find_conversion", e, <<>>) /\ sim' = NoSim /\ loc' = l
    ELSE /\ pc' = "find_conversion"
         /\ ret' = ret
         /\ sim' = NoSim
         /\ loc' = [l EXCEPT !.steady_state_data = v]

\* find_steady_state of a CSTR: one run over 3*tau, the last sample
SteadyStateCSTR ==
    /\ pc = "find_steady_state"
    /\ self.reactor_type = "CSTR"
    /\ LET x == CSTRSteadyState(self)
       IN  IF RunError(self, x) # ""
           THEN /\ hist' = Append(hist, RunEntry("find_steady_state", x,
                                                 RunError(self, x), FALSE))
                /\ SteadyStateEnds(RunError(self, x), <<>>, NoSim, loc)
           ELSE \E res \in SolverResults(self, x) :
                /\ hist' = Append(hist, RunEntry("find_steady_state", x,
                                                 RunResultError(res), FALSE))
                /\ IF RunResultError(res) # ""
                   THEN SteadyStateEnds(RunResultError(res), <<>>, NoSim, loc)
                   ELSE SteadyStateEnds(
                            "", SteadyStateData(self, res, x, Len(res.t)), res,
                            [loc EXCEPT !.x_steady_state = x])
    /\ Frame
    /\ UNCHANGED call

\* one turn of the loop of find_steady_state: run(guess), then the test of
\* the transformation rates against the threshold
SteadyStateIterate ==
    /\ pc = "find_steady_state"
    /\ self.reactor_type # "CSTR"
    /\ LoopContinues(loc)
    /\ LET x == loc.guess
           l1 == [loc EXCEPT !.iteration_count = @ + 1]
       IN  IF RunError(self, x) # ""
           THEN /\ hist' = Append(hist, RunEntry("find_steady_state", x,
                                                 RunError(self, x), FALSE))
                /\ SteadyStateEnds(RunError(self, x), <<>>, NoSim, l1)
           ELSE \E res \in SolverResults(self, x) :
                IF RunResultError(res) # ""
                THEN /\ hist' = Append(hist, RunEntry("find_steady_state", x,
                                                      RunResultError(res), FALSE))
                     /\ SteadyStateEnds(RunResultError(res), <<>>, NoSim, l1)
                ELSE IF RunKeys(self) = <<>>
                THEN /\ hist' = Append(hist, RunEntry("find_steady_state", x,
                                                      "Axis", FALSE))
                     /\ SteadyStateEnds("Axis", <<>>, NoSim, l1)
                ELSE LET b == below_threshold(TransformationRates(self, res),
                                              loc.threshold)
                     IN  /\ hist' = Append(hist, RunEntry("find_steady_state",
                                                          x, "", AnyTrue(b)))
                         /\ pc' = "find_steady_state"
                         /\ ret' = ret
                         /\ IF AnyTrue(b)
                            THEN /\ sim' = res
                                 /\ loc' = [l1 EXCEPT
                                       !.steady_state_reached = TRUE,
                                       !.x_steady_state = res.t[FirstTrue(b)]]
                            ELSE /\ sim' = NoSim
                                 /\ loc' = [l1 EXCEPT
                                       !.guess = NextGuess(loc.guess)]
    /\ Frame
    /\ UNCHANGED call

\* after the loop of find_steady_state: raise, or return the snapshots
SteadyStateExit ==
    /\ pc = "find_steady_state"
    /\ self.reactor_type # "CSTR"
    /\ ~LoopContinues(loc)
    /\ IF ~loc.steady_state_reached
       THEN SteadyStateEnds("SteadyStateNotReached", <<>>, NoSim, loc)
       ELSE SteadyStateEnds(
                "",
                SteadyStateData(
                    self, sim, loc.x_steady_state,
                    FirstTrue(below_threshold(TransformationRates(self, sim),
                                              loc.threshold))),
                sim, loc)
    /\ Frame
    /\ UNCHANGED <<call, hist>>

\* the client calls find_conversion(specie, conversion_target, guess): the
\* lookup of the initial concentration, then the call of find_steady_state
FindConversion ==
    /\ pc = "idle"
    /\ \E specie \in ConversionSpecies, conversion_target \in ConversionTargets,
          guess \in ConversionGuesses :
        /\ call' = [op |-> "find_conversion", specie |-> specie,
                    conversion_target |-> conversion_target, guess |-> guess]
        /\ IF ~Has(ConversionDict(self), specie)
           THEN Finish("find_conversion", "KeyError", <<>>) /\ loc' = NoLoc
           ELSE /\ pc' = "find_steady_state"
                /\ ret' = ret
                /\ loc' = [NoLoc EXCEPT
                      !.caller = "find_conversion",
                      !.guess = guess,
                      !.threshold = <<1, ThresholdDen>>,
                      !.max_iterations = DefaultMaxIterations,
                      !.specie = specie,
                      !.conversion_target = conversion_target,
                      !.initial_concentration_specie =
                          Get(ConversionDict(self), specie),
                      !.final_concentration_specie =
                          final_concentration(Get(ConversionDict(self), specie),
                                              conversion_target)]
    /\ hist' = <<>>
    /\ Frame
    /\ UNCHANGED sim

\* find_conversion once find_steady_state has returned: the test of the
\* target against the maximal conversion, the run to the steady state and
\* the search of the first sample at or below the final concentration
ConversionFinish ==
    /\ pc = "find_conversion"
    /\ LET x == loc.steady_state_data[1]
           steady == Get(loc.steady_state_data[2], loc.specie)
       IN  IF ConversionTooHigh(
                  loc.conversion_target,
                  maximal_conversion(loc.initial_concentration_specie, steady))
           THEN /\ Finish("find_conversion", "ConversionExceedsMaximum", <<>>)
                /\ sim' = NoSim
                /\ hist' = hist
           ELSE IF RunError(self, x) # ""
           THEN /\ hist' = Append(hist, RunEntry("find_conversion", x,
                                                 RunError(self, x), FALSE))
                /\ Finish("find_conversion", RunError(self, x), <<>>)
                /\ sim' = NoSim
           ELSE \E res \in SolverResults(self, x) :
                /\ hist' = Append(hist, RunEntry("find_conversion", x,
                                                 RunResultError(res), FALSE))
                /\ IF RunResultError(res) # ""
                   THEN Finish("find_conversion", RunResultError(res), <<>>)
                        /\ sim' = NoSim
                   ELSE LET reached ==
                                ConversionReached(
                                    Get(FullOutput(self, res)[2], loc.specie),
                                    loc.final_concentration_specie)
                        IN  IF ~AnyTrue(reached)
                            THEN Finish("find_conversion", "IndexError", <<>>)
                                 /\ sim' = NoSim
                            ELSE /\ Finish("find_conversion", "",
                                           ConversionData(self, res, loc.specie,
                                                          FirstTrue(reached)))
                                 /\ sim' = res
    /\ Frame
    /\ UNCHANGED <<call, loc>>

\* the client calls calculate_rate(concentrations) on a reaction of the reactor
CalculateRate ==
    /\ pc = "idle"
    /\ \E i \in 1..Len(self.reactions), concentrations \in RateBindings :
        /\ call' = [op |-> "calculate_rate", reaction |-> i,
                    concentrations |-> concentrations]
        /\ Finish("calculate_rate", "",
                  <<calculate_rate(self.reactions[i], concentrations)>>)
    /\ Frame
    /\ UNCHANGED <<loc, sim, hist>>

\* the client takes the result; the locals of the call are gone
Resume ==
    /\ pc = "done"
    /\ pc' = "idle"
    /\ call' = NoCall
    /\ loc' = NoLoc
    /\ sim' = NoSim
    /\ ret' = NoRet
    /\ hist' = <<>>
    /\ Frame

Init ==
    /\ args \in RunArgs
    /\ pc = "new"
    /\ self = NoReactor
    /\ call = NoCall
    /\ loc = NoLoc
    /\ sim = NoSim
    /\ ret = NoRet
    /\ hist = <<>>

Next ==
    \/ Construct
    \/ Run
    \/ FindSteadyState
    \/ SteadyStateCSTR
    \/ SteadyStateIterate
    \/ SteadyStateExit
    \/ FindConversion
    \/ ConversionFinish
    \/ CalculateRate
    \/ Resume

Spec == Init /\ [][Next]_vars

(***************************************************************************)
(* Construction alone, over a wide set of arguments.                       *)
(***************************************************************************)
InitCtor ==
    /\ args \in CtorArgs
    /\ pc = "new"
    /\ self = NoReactor
    /\ call = NoCall
    /\ loc = NoLoc
    /\ sim = NoSim
    /\ ret = NoRet
    /\ hist = <<>>

NextCtor == Construct

SpecCtor == InitCtor /\ [][NextCtor]_vars

(***************************************************************************)
(* Reaction alone: construction over a wide set of arguments, then         *)
(* calculate_rate.                                                         *)
(***************************************************************************)
\* the sequences over S of length at most n
SeqsUpTo(S, n) == UNION {[1..k -> S] : k \in 0..n}

\* Reaction(name, species, coeffs, rate_law)
ReactionSpeciesLists == SeqsUpTo({"A", "B"}, MaxSpeciesLen)

ReactionCoeffLists == {[i \in 1..k |-> R(i - 2)] : k \in 0..(MaxSpeciesLen + 1)}

ReactionRateLaws ==
    {[k |-> Half, syms |-> syms] :
        syms \in {<<>>, <<"A">>, <<"B">>, <<"A", "B">>, <<"A", "A">>,
                  <<"C">>, <<"A", "C">>}}

ReactionArgs ==
    {[name |-> "R1", species |-> species, coeffs |-> coeffs,
      rate_law |-> rate_law] :
        species \in ReactionSpeciesLists, coeffs \in ReactionCoeffLists,
        rate_law \in ReactionRateLaws}

\* Reaction(...)
ReactionConstruct ==
    /\ pc = "new"
    /\ LET e == ReactionInitError(args.name, args.species, args.coeffs,
                                  args.rate_law)
       IN  IF e # ""
           THEN /\ pc' = "failed"
                /\ self' = NoReactor
                /\ ret' = [op |-> "__init__", error |-> e, value |-> <<>>]
           ELSE /\ pc' = "idle"
                /\ self' = Reaction(args.name, args.species, args.coeffs,
                                    args.rate_law)
                /\ ret' = NoRet
    /\ UNCHANGED <<args, call, loc, sim, hist>>

\* the client calls calculate_rate(concentrations) on the reaction
ReactionCalculateRate ==
    /\ pc = "idle"
    /\ \E concentrations \in RateBindings :
        /\ call' = [op |-> "calculate_rate", reaction |-> 0,
                    concentrations |-> concentrations]
        /\ Finish("calculate_rate", "", <<calculate_rate(self, concentrations)>>)
    /\ Frame
    /\ UNCHANGED <<loc, sim, hist>>

InitReaction ==
    /\ args \in ReactionArgs
    /\ pc = "new"
    /\ self = NoReactor
    /\ call = NoCall
    /\ loc = NoLoc
    /\ sim = NoSim
    /\ ret = NoRet
    /\ hist = <<>>

NextReaction ==
    \/ ReactionConstruct
    \/ ReactionCalculateRate
    \/ Resume

SpecReaction == InitReaction /\ [][NextReaction]_vars

(***************************************************************************)
(* The mass balance alone: initialize_coeffs_matrix and the right-hand     *)
(* side ODE of run, applied to the states the integrator may pass.         *)
(***************************************************************************)
\* B -> nothing at rate B
RxLossB == Reaction("R4", <<"B">>, <<R(-1)>>, [k |-> R(1), syms |-> <<"B">>])

B1 == <<<<"B", R(1)>>>>

A1B0C1 == <<<<"A", R(1)>>, <<"B", R(0)>>, <<"C", R(1)>>>>

\* the reactors of RunArgs, and reactors with a species of no reaction,
\* a vessel full from the start, and bulk and inlet dicts of unlike keys
ODEArgs ==
    RunArgs \cup
    { Args("Batch", R(2), <<RxForward>>, A1B0C1, R(0), R(0), <<>>),
      Args("CSTR", R(2), <<RxForward, RxBackward>>, B0A1, R(2), R(1), A1B0),
      Args("CSTR", R(2), <<RxLossB>>, A1B0, R(1), R(1), B1),
      Args("Fed-batch", R(2), <<RxLossB>>, A1B0, R(0), R(1), B1),
      Args("Fed-batch", R(1), <<RxForward, RxBackward>>, A1B0, R(1), R(2), B0A1),
      Args("PFR", R(1), <<RxForward>>, A1, R(0), R(2), A1B0C1) }

\* the coordinates x the integrator evaluates ODE at
ODECoordinates == {R(0), Half, R(1), R(2)}

\* the error ODE(x, y) raises, "" when it returns
ODEError(r, x, y) ==
    IF CoeffsMatrixError(r) THEN "Index"
    ELSE IF ODEShapeError(r, x, y) THEN "Shape"
    ELSE ""

\* the integrator calls ODE(x, y)
EvalODE ==
    /\ pc = "idle"
    /\ self.reactor_type \in KnownTypes
    /\ \E x \in ODECoordinates, y \in [1..Len(initial_y(self)) -> MolesVals] :
        /\ call' = [op |-> "ODE", x |-> x, y |-> y]
        /\ Finish("ODE", ODEError(self, x, y),
                  IF ODEError(self, x, y) = "" THEN ODE(self, x, y) ELSE <<>>)
    /\ Frame
    /\ UNCHANGED <<loc, sim, hist>>

\* self.initialize_coeffs_matrix()
CoeffsMatrix ==
    /\ pc = "idle"
    /\ call' = [op |-> "initialize_coeffs_matrix"]
    /\ Finish("initialize_coeffs_matrix",
              IF CoeffsMatrixError(self) THEN "Index" ELSE "",
              IF CoeffsMatrixError(self) THEN <<>>
              ELSE initialize_coeffs_matrix(self))
    /\ Frame
    /\ UNCHANGED <<loc, sim, hist>>

InitODE ==
    /\ args \in ODEArgs
    /\ pc = "new"
    /\ self = NoReactor
    /\ call = NoCall
    /\ loc = NoLoc
    /\ sim = NoSim
    /\ ret = NoRet
    /\ hist = <<>>

NextODE ==
    \/ Construct
    \/ EvalODE
    \/ CoeffsMatrix
    \/ Resume

SpecODE == InitODE /\ [][NextODE]_vars

(***************************************************************************)
(* Properties.                                                             *)
(***************************************************************************)
\* the species of the reactions passed to Reactor(...)
ReactionSpecies(a) ==
    UNION {{a.reactions[i].species_coeffs[j][1] :
                j \in 1..Len(a.reactions[i].species_coeffs)} :
           i \in 1..Len(a.reactions)}

RequiresBulk(t) == t \in {"Batch", "Fed-batch", "CSTR"}

RequiresInlet(t) == t \in {"Fed-batch", "CSTR", "PFR"}

\* the dict has an item whose value is below zero
SomeBelowZero(d) == \E i \in 1..Len(d) : d[i][2][1] < 0 /\ d[i][2][2] > 0

\* the regimes whose steady state is searched by the loop
LoopTypes == {"Batch", "Fed-batch", "PFR"}

\* a call of op made by the client has ended
Ended(op) == pc = "done" /\ ret.op = op

\* the transformation rate of every species at sample i of the trajectory
\* has a magnitude strictly below the threshold th
EverySpeciesBelow(i, th) ==
    \A j \in 1..Len(FullOutput(self, sim)[5]) :
        LET v == FullOutput(self, sim)[5][j][2][i]
        IN  RLt(RNeg(th), v) /\ RLt(v, th)

\* the transformation rate of some species, not of all, is below th at i
OnlySomeSpeciesBelow(i, th) ==
    /\ ~EverySpeciesBelow(i, th)
    /\ \E j \in 1..Len(FullOutput(self, sim)[5]) :
        LET v == FullOutput(self, sim)[5][j][2][i]
        IN  RLt(RNeg(th), v) /\ RLt(v, th)

\* C1: for Batch, Fed-batch and PFR, the coordinate find_steady_state
\* returns is the smallest sample coordinate of the simulated span at which
\* the transformation rates of all the species are strictly below the
\* threshold in magnitude; a sample where only some are is not selected
C1_SmallestSampleAllBelow ==
    (Ended("find_steady_state") /\ ret.error = ""
        /\ self.reactor_type \in LoopTypes)
    => \E i \in 1..Len(sim.t) :
        /\ ret.value[1] = sim.t[i]
        /\ EverySpeciesBelow(i, call.threshold)
        /\ \A k \in 1..(i - 1) : ~EverySpeciesBelow(k, call.threshold)

\* the search returns the second sample, after a first sample at which
\* only some of the species are below the threshold
C1_Witness ==
    /\ Ended("find_steady_state") /\ ret.error = ""
    /\ self.reactor_type \in LoopTypes
    /\ Len(sim.t) >= 2
    /\ ret.value[1] = sim.t[2]
    /\ OnlySomeSpeciesBelow(1, call.threshold)

\* the runs the steady-state search has made, in order
SearchRuns == SelectSeq(hist, LAMBDA h : h.by = "find_steady_state")

\* the span of the i-th simulation of a search that starts from guess g
RECURSIVE TenfoldSpan(_, _)
TenfoldSpan(g, i) == IF i = 1 THEN g ELSE RMul(TenfoldSpan(g, i - 1), R(10))

\* every run of the sequence h ended without a qualifying sample
NoneQualifies(h) ==
    \A i \in 1..Len(h) : h[i].error = "" /\ ~h[i].qualified

\* C2: for Batch, Fed-batch and PFR, find_steady_state simulates the spans
\* guess, 10*guess, 100*guess, ... in that order, stops at the first span
\* with a qualifying sample, makes at most max_iterations simulations, and
\* raises steady-state-not-reached exactly when none of max_iterations
\* spans has a qualifying sample (with max_iterations = 0, no simulation)
C2_TenfoldSpansWithinBudget ==
    /\ (loc.caller # "" /\ self.reactor_type \in LoopTypes)
       => /\ Len(SearchRuns) <= loc.max_iterations
          /\ \A i \in 1..Len(SearchRuns) :
                SearchRuns[i].x = TenfoldSpan(call.guess, i)
          /\ \A i \in 1..(Len(SearchRuns) - 1) :
                SearchRuns[i].error = "" /\ ~SearchRuns[i].qualified
    /\ (Ended("find_steady_state") /\ self.reactor_type \in LoopTypes)
       => /\ hist = SearchRuns
          /\ (ret.error = "") <=> (hist # <<>> /\ hist[Len(hist)].qualified)
          /\ (ret.error = "SteadyStateNotReached")
             <=> (Len(hist) = call.max_iterations /\ NoneQualifies(hist))
          /\ (call.max_iterations = 0)
             => (hist = <<>> /\ ret.error = "SteadyStateNotReached")

\* the search returns from its second span, ten times the guess, the
\* first span having had no qualifying sample
C2_Witness ==
    /\ Ended("find_steady_state") /\ ret.error = ""
    /\ self.reactor_type \in LoopTypes
    /\ call.max_iterations = 2
    /\ Len(hist) = 2
    /\ hist[1].x = R(1) /\ hist[2].x = R(10)
    /\ ~hist[1].qualified /\ hist[2].qualified

\* C3: for a CSTR, find_steady_state reports 3*volume/flow_rate whatever
\* guess, threshold and max_iterations are: one simulation over that span,
\* no test against the threshold, the snapshots those of the last sample
C3_CSTRThreeResidenceTimes ==
    (Ended("find_steady_state") /\ self.reactor_type = "CSTR")
    => /\ Len(hist) = 1
       /\ hist[1].x = RDiv(RMul(R(3), self.volume), self.flow_rate)
       /\ ret.error # "SteadyStateNotReached"
       /\ (ret.error = "")
          => /\ ret.value[1] = RDiv(RMul(R(3), self.volume), self.flow_rate)
             /\ \A k \in 2..5 :
                   ret.value[k] = PickDict(FullOutput(self, sim)[k], Len(sim.t))

\* a CSTR search returns with max_iterations = 0 and a zero guess, from a
\* last sample whose transformation rates are not below the threshold
C3_Witness ==
    /\ Ended("find_steady_state") /\ ret.error = ""
    /\ self.reactor_type = "CSTR"
    /\ call.max_iterations = 0 /\ call.guess = Zero
    /\ Len(sim.t) >= 2
    /\ ~EverySpeciesBelow(Len(sim.t), call.threshold)

\* the mapping find_conversion takes the initial concentration from, by
\* the arguments the Reactor was constructed with
RegimeMapping ==
    IF args.reactor_type \in {"Batch", "Fed-batch", "CSTR"}
    THEN args.initial_bulk_concentrations_dict
    ELSE args.inlet_concentrations_dict

\* the concentration find_steady_state returned for the species of the call
SteadyConcentration == Get(loc.steady_state_data[2], call.specie)

\* conversion_target > (initial - steady state)/initial
TargetExceedsMaximum ==
    RGt(call.conversion_target,
        RDiv(RSub(Get(RegimeMapping, call.specie), SteadyConcentration),
             Get(RegimeMapping, call.specie)))

\* the runs find_conversion has made itself
ConversionRuns == SelectSeq(hist, LAMBDA h : h.by = "find_conversion")

\* C4: find_conversion raises conversion-exceeds-maximum whenever the
\* target is greater than (initial - steady state)/initial of the species,
\* the steady state being the concentration find_steady_state returned; it
\* then returns nothing and runs no simulation after the search
C4_TargetAboveMaximumFails ==
    (Ended("find_conversion") /\ loc.steady_state_data # <<>>
        /\ TargetExceedsMaximum)
    => /\ ret.error = "ConversionExceedsMaximum"
       /\ ret.value = <<>>
       /\ ConversionRuns = <<>>
       /\ sim = NoSim

\* a target of 1 is refused for a species whose steady-state concentration
\* is half its initial one
C4_Witness ==
    /\ Ended("find_conversion") /\ loc.steady_state_data # <<>>
    /\ call.conversion_target = R(1)
    /\ Get(RegimeMapping, call.specie) = R(1)
    /\ SteadyConcentration = Half
    /\ ret.error = "ConversionExceedsMaximum"

\* the concentration of the species of the call at sample i
SpecieConcentration(i) == Get(FullOutput(self, sim)[2], call.specie)[i]

\* initial_concentration*(1 - conversion_target)
TargetConcentration ==
    RSub(Get(RegimeMapping, call.specie),
         RMul(Get(RegimeMapping, call.specie), call.conversion_target))

\* C5: the coordinate find_conversion returns is the first sample of the
\* trajectory simulated over [0, steady-state coordinate] at which the
\* concentration of the species is at or below initial*(1 - target); it
\* does not exceed the steady-state coordinate
C5_FirstSampleAtTarget ==
    (Ended("find_conversion") /\ ret.error = "")
    => /\ hist[Len(hist)].by = "find_conversion"
       /\ hist[Len(hist)].x = loc.steady_state_data[1]
       /\ sim.t[1] = Zero
       /\ \A i \in 1..Len(sim.t) : RLe(sim.t[i], loc.steady_state_data[1])
       /\ RLe(ret.value[1], loc.steady_state_data[1])
       /\ \E i \in 1..Len(sim.t) :
            /\ ret.value[1] = sim.t[i]
            /\ RLe(SpecieConcentration(i), TargetConcentration)
            /\ \A k \in 1..(i - 1) :
                  ~RLe(SpecieConcentration(k), TargetConcentration)

\* find_conversion returns the second sample, where the concentration
\* equals the target concentration, before the end of the trajectory
C5_Witness ==
    /\ Ended("find_conversion") /\ ret.error = ""
    /\ Len(sim.t) >= 3
    /\ ret.value[1] = sim.t[2]
    /\ SpecieConcentration(2) = TargetConcentration
    /\ RLt(SpecieConcentration(3), TargetConcentration)

\* C6: find_conversion on a species with no entry in the mapping of the
\* regime (bulk for Batch, Fed-batch and CSTR, inlet for PFR) raises the
\* lookup error, before any simulation or steady-state search starts
C6_UnknownSpeciesFailsFirst ==
    (call.op = "find_conversion" /\ call.specie \notin Keys(RegimeMapping))
    => /\ pc = "done"
       /\ ret.error = "KeyError"
       /\ ret.value = <<>>
       /\ hist = <<>>
       /\ loc = NoLoc

\* find_conversion on a Fed-batch reactor is refused for a species that
\* has an inlet concentration and no bulk concentration
C6_Witness ==
    /\ Ended("find_conversion")
    /\ self.reactor_type = "Fed-batch"
    /\ call.specie \in Keys(args.inlet_concentrations_dict)
    /\ call.specie \notin Keys(args.initial_bulk_concentrations_dict)
    /\ ret.error = "KeyError"

\* C7: no call of calculate_rate, run, find_steady_state or find_conversion
\* changes an attribute of the Reactor or of its reactions, whether it
\* returns or raises: at every point after construction the Reactor is the
\* one its constructor built
C7_CallsLeaveReactorUnchanged ==
    (pc \notin {"new", "failed"}) => self = ReactorInitSelf(args)

\* find_conversion has returned after its searches and simulations
C7_Witness ==
    /\ Ended("find_conversion") /\ ret.error = ""
    /\ Len(hist) >= 2
    /\ self = ReactorInitSelf(args)

\* C8: for Batch, Fed-batch and CSTR, run with a span x <= 0 raises the
\* missing-span error before solve_ivp is called and returns nothing
C8_NonPositiveSpanFails ==
    /\ (Ended("run") /\ self.reactor_type \in {"Batch", "Fed-batch", "CSTR"}
           /\ call.x[1] <= 0)
       => /\ ret.error = "MissingSpan"
          /\ ret.value = <<>>
          /\ sim = NoSim
    /\ (pc # "new" /\ pc # "failed"
           /\ self.reactor_type \in {"Batch", "Fed-batch", "CSTR"})
       => \A i \in 1..Len(hist) :
             (hist[i].x[1] <= 0)
             => (hist[i].error = "MissingSpan" /\ ~hist[i].solver)

\* run(0) on a CSTR has raised the missing-span error
C8_Witness ==
    /\ Ended("run")
    /\ self.reactor_type = "CSTR"
    /\ call.x = Zero
    /\ ret.error = "MissingSpan"
    /\ ~hist[1].solver

\* C9: construction fails whenever a species of some reaction is absent
\* from a concentration mapping the regime requires (bulk for Batch, bulk
\* and inlet for Fed-batch and CSTR, inlet for PFR)
C9_MissingSpeciesFails ==
    (/\ pc # "new"
     /\ \/ /\ RequiresBulk(args.reactor_type)
           /\ ReactionSpecies(args) \ Keys(args.initial_bulk_concentrations_dict) # {}
        \/ /\ RequiresInlet(args.reactor_type)
           /\ ReactionSpecies(args) \ Keys(args.inlet_concentrations_dict) # {})
    => (pc = "failed" /\ self = NoReactor)

\* a CSTR whose bulk dict is complete is refused for its inlet dict
C9_Witness ==
    /\ pc = "failed"
    /\ args.reactor_type = "CSTR"
    /\ ReactionSpecies(args) # {}
    /\ ReactionSpecies(args) \subseteq Keys(args.initial_bulk_concentrations_dict)
    /\ ret.error = "MissingSpeciesInlet"

\* C10: construction fails whenever an entry of a mapping the regime
\* requires is negative, also for a species of no reaction; a constructed
\* Reactor holds no negative concentration in its required mappings
C10_NegativeConcentrationFails ==
    /\ (/\ pc # "new"
        /\ \/ /\ RequiresBulk(args.reactor_type)
              /\ SomeBelowZero(args.initial_bulk_concentrations_dict)
           \/ /\ RequiresInlet(args.reactor_type)
              /\ SomeBelowZero(args.inlet_concentrations_dict))
       => (pc = "failed" /\ self = NoReactor)
    /\ (pc = "idle" /\ RequiresBulk(self.reactor_type))
       => ~SomeBelowZero(self.initial_bulk_concentrations_dict)
    /\ (pc = "idle" /\ RequiresInlet(self.reactor_type))
       => ~SomeBelowZero(self.inlet_concentrations_dict)

\* a Fed-batch reactor is refused for the negative inlet concentration of
\* B, a species of no reaction, listed after A
C10_Witness ==
    /\ pc = "failed"
    /\ args.reactor_type = "Fed-batch"
    /\ args.reactions = <<RxLoss>>
    /\ args.inlet_concentrations_dict = <<<<"A", R(0)>>, <<"B", R(-1)>>>>
    /\ ret.error = "NegativeInletConcentration"

\* the number q is at or below zero, q a fraction with a positive denominator
AtMostZero(q) == q[1] <= 0 /\ q[2] > 0

\* C11: construction fails whenever volume <= 0, in any regime, or
\* flow_rate <= 0 for Fed-batch, CSTR or PFR; a constructed Reactor has
\* volume > 0 and, unless it is Batch, flow_rate > 0
C11_PositiveScalarsRequired ==
    /\ (/\ pc # "new"
        /\ \/ AtMostZero(args.volume)
           \/ /\ args.reactor_type \in {"Fed-batch", "CSTR", "PFR"}
              /\ AtMostZero(args.flow_rate))
       => (pc = "failed" /\ self = NoReactor)
    /\ (pc = "idle")
       => /\ ~AtMostZero(self.volume)
          /\ (self.reactor_type # "Batch") => ~AtMostZero(self.flow_rate)

\* a Batch reactor of volume zero is refused, its other arguments valid
C11_Witness ==
    /\ pc = "failed"
    /\ args.reactor_type = "Batch"
    /\ args.volume = Zero
    /\ args.reactions = <<RxLoss>>
    /\ args.initial_bulk_concentrations_dict = <<<<"A", R(0)>>>>
    /\ args.initial_volume = Zero
    /\ ret.error = "Volume"

\* the arguments other than initial_volume are valid for a Fed-batch or a
\* CSTR: positive volume and flow rate, a non-empty inlet dict, both dicts
\* holding every species of the reactions and no negative concentration
OtherwiseValid(a) ==
    /\ ~AtMostZero(a.volume)
    /\ ~AtMostZero(a.flow_rate)
    /\ a.inlet_concentrations_dict # <<>>
    /\ ReactionSpecies(a) \subseteq Keys(a.initial_bulk_concentrations_dict)
    /\ ReactionSpecies(a) \subseteq Keys(a.inlet_concentrations_dict)
    /\ ~SomeBelowZero(a.initial_bulk_concentrations_dict)
    /\ ~SomeBelowZero(a.inlet_concentrations_dict)

\* 0 <= initial_volume <= volume, by cross-multiplication
WithinVessel(a) ==
    /\ a.initial_volume[1] >= 0
    /\ a.initial_volume[1] * a.volume[2] <= a.volume[1] * a.initial_volume[2]

NoDuplicates(seq) ==
    \A i \in 1..Len(seq) : \A j \in 1..Len(seq) : (seq[i] = seq[j]) => (i = j)

\* the three conditions of a Reaction, on the arguments of Reaction(...)
SymbolsAreSpecies(a) ==
    \A i \in 1..Len(a.rate_law.syms) :
        \E j \in 1..Len(a.species) : a.species[j] = a.rate_law.syms[i]

\* C13: a Reaction whose construction succeeds has every free symbol of
\* its rate law among the keys of species_coeffs, a species list without
\* duplicates and as many coefficients as species; construction fails
\* when any of the three does not hold
C13_ReactionInvariants ==
    /\ (pc \in {"idle", "done"})
       => /\ SymbolsAreSpecies(args)
          /\ NoDuplicates(args.species)
          /\ Len(args.coeffs) = Len(args.species)
          /\ \A i \in 1..Len(args.rate_law.syms) :
                args.rate_law.syms[i] \in Keys(self.species_coeffs)
          /\ Len(self.species_coeffs) = Len(args.species)
    /\ (/\ pc # "new"
        /\ \/ ~SymbolsAreSpecies(args)
           \/ ~NoDuplicates(args.species)
           \/ Len(args.coeffs) # Len(args.species))
       => (pc = "failed" /\ self = NoReactor)

\* Reaction("R1", ["A", "A"], [-1, 0], 0.5*A) is refused for the repeated
\* species alone
C13_Witness ==
    /\ pc = "failed"
    /\ args.species = <<"A", "A">>
    /\ Len(args.coeffs) = 2
    /\ args.rate_law.syms = <<"A">>
    /\ ret.error = "DuplicateSpecies"

\* some free symbol of the rate law of the reaction has no binding in the
\* concentrations of the call
BindingMissing ==
    \E i \in 1..Len(args.rate_law.syms) :
        \A j \in 1..Len(call.concentrations) :
            call.concentrations[j][1] # args.rate_law.syms[i]

\* C14: calculate_rate called with concentrations that lack a binding for a
\* free symbol of the rate law raises a missing-concentration error; it
\* never returns a result that is not a number
C14_MissingBindingFails ==
    (Ended("calculate_rate") /\ BindingMissing)
    => (ret.error # "" /\ ret.value = <<>>)

\* C15: for a PFR, run with x = 0 simulates over [0, volume of the
\* reactor]: the call is not refused for its span, and the samples it
\* returns are those of the span that ends at the volume
C15_PFRZeroSpanRunsToVolume ==
    (Ended("run") /\ self.reactor_type = "PFR" /\ call.x = Zero)
    => /\ ret.error \in {"", "Integration"}
       /\ (ret.error = "")
          => sim.t = SubSeq(linspace(self.volume), 1, Len(sim.t))

\* C16: plot = True overrides full_output: run(x, plot = True,
\* full_output = False) returns the five components that
\* run(x, full_output = True) returns
C16_PlotReturnsFullOutput ==
    (Ended("run") /\ ret.error = "" /\ call.plot)
    => (Len(ret.value) = 5 /\ ret.value = FullOutput(self, sim))

RECURSIVE SumVec(_)
\* the sum of the components of a vector
SumVec(v) == IF v = <<>> THEN Zero ELSE RAdd(Head(v), SumVec(Tail(v)))

\* the stoichiometric coefficients of every reaction of r sum to zero
ZeroSumReactions(r) ==
    \A i \in 1..Len(r.reactions) :
        SumVec(Values(r.reactions[i].species_coeffs)) = Zero

\* C17: for a Batch reactor whose reactions each have coefficients that
\* sum to zero, the components of dy/dx sum to zero at every state, so
\* that the total of the moles does not change along the trajectory
C17_BatchConservesMoles ==
    (Ended("ODE") /\ self.reactor_type = "Batch" /\ ZeroSumReactions(self))
    => /\ ret.error = ""
       /\ Len(ret.value) = Len(call.y)
       /\ SumVec(ret.value) = Zero

\* dy/dx of a Batch reactor with A -> B and a species of no reaction: A is
\* consumed, B produced at the same rate
C17_Witness ==
    /\ Ended("ODE")
    /\ self.reactor_type = "Batch"
    /\ self.reactions = <<RxForward>>
    /\ Len(call.y) = 3
    /\ ret.value[1] = R(-2) /\ ret.value[2] = R(2) /\ ret.value[3] = Zero

\* the canonical order of the species: the sorted keys of the mapping of
\* the regime
CanonicalSpecies == KeySeq(SortedDict(RegimeMapping))

\* the coefficient of species sp in reaction rx, 0 when it is not involved
CoefficientOf(rx, sp) ==
    IF \E k \in 1..Len(rx.species_coeffs) : rx.species_coeffs[k][1] = sp
    THEN Get(rx.species_coeffs, sp)
    ELSE Zero

\* C18: for a constructed Reactor of any regime, initialize_coeffs_matrix
\* returns a matrix with one row per species of the canonical order and
\* one column per reaction, in list order, whose entry [i][j] is the
\* coefficient of species i in reaction j, 0 when it is not involved
C18_CoeffsMatrixBySpecies ==
    (Ended("initialize_coeffs_matrix") /\ self.reactor_type \in KnownTypes)
    => /\ ret.error = ""
       /\ Len(ret.value) = Len(CanonicalSpecies)
       /\ \A i \in 1..Len(ret.value) :
            /\ Len(ret.value[i]) = Len(self.reactions)
            /\ \A j \in 1..Len(self.reactions) :
                  ret.value[i][j] =
                      CoefficientOf(self.reactions[j], CanonicalSpecies[i])

\* C19: within a constructed Fed-batch or CSTR Reactor, the vectors of the
\* right-hand side follow the canonical order of the state vector: the
\* inlet-concentration vector has the length of the state vector and its
\* component i is the inlet concentration of the i-th species of the sorted
\* bulk keys, also when the bulk and inlet dicts have unlike keys; so has
\* the vector of transformation rates the length of the state vector
C19_VectorsFollowCanonicalOrder ==
    (Ended("ODE") /\ self.reactor_type \in {"Fed-batch", "CSTR"})
    => /\ ret.error = ""
       /\ Len(InletFlow(self, R(1))) = Len(call.y)
       /\ Len(ODERates(self, call.x, call.y)) = Len(call.y)
       /\ Len(ret.value) = Len(call.y)
       /\ \A i \in 1..Len(call.y) :
            (CanonicalSpecies[i] \in Keys(args.inlet_concentrations_dict))
            => InletFlow(self, R(1))[i]
                   = Get(args.inlet_concentrations_dict, CanonicalSpecies[i])

\* initial_volume + flow_rate*x, the volume fed in by the coordinate of the
\* call
FilledVolume == RAdd(self.initial_volume, RMul(self.flow_rate, call.x))

\* the vessel is still filling at the coordinate of the call
Filling == RLt(FilledVolume, self.volume)

\* current_volume = min(initial_volume + flow_rate*x, volume)
VesselVolume == IF Filling THEN FilledVolume ELSE self.volume

\* the outlet term: flow_rate*concentrations when the vessel is full, zero
\* while it is filling
ExpectedOutlet ==
    [i \in 1..Len(call.y) |->
        IF Filling THEN Zero
        ELSE RMul(self.flow_rate, RDiv(call.y[i], self.volume))]

\* C20: for a CSTR, at every x >= 0 the inlet term
\* flow_rate*inlet_concentrations is added to dy/dx, and the outlet term
\* is flow_rate*concentrations exactly when current_volume = volume and
\* zero exactly when current_volume < volume
C20_CSTROutletOnlyWhenFull ==
    (Ended("ODE") /\ self.reactor_type = "CSTR" /\ ret.error = "")
    => ret.value =
           VSub(VAdd(VScale(ODERates(self, call.x, call.y), VesselVolume),
                     VScale(Values(self.inlet_concentrations_dict),
                            self.flow_rate)),
                ExpectedOutlet)

\* dy/dx of a CSTR that has filled up by x = 1, with a non-zero outlet term
C20_Witness ==
    /\ Ended("ODE") /\ ret.error = ""
    /\ self.reactor_type = "CSTR"
    /\ RLt(self.initial_volume, self.volume)
    /\ call.x = R(1)
    /\ ~Filling
    /\ \E i \in 1..Len(call.y) : ExpectedOutlet[i] # Zero

\* the flow the feed enters with: flow_rate while the vessel is filling,
\* zero once it is full
ExpectedFeedFlow == IF Filling THEN self.flow_rate ELSE Zero

\* C21: for a Fed-batch reactor, at every x >= 0 the inlet term added to
\* dy/dx is flow_rate*inlet_concentrations exactly when current_volume is
\* below volume and zero once current_volume equals volume; no outlet term
\* is subtracted at any x
C21_FedBatchFeedOnlyWhileFilling ==
    (Ended("ODE") /\ self.reactor_type = "Fed-batch" /\ ret.error = "")
    => ret.value =
           VAdd(VScale(ODERates(self, call.x, call.y), VesselVolume),
                VScale(Values(self.inlet_concentrations_dict),
                       ExpectedFeedFlow))

\* dy/dx of a Fed-batch reactor that has filled up by the coordinate x > 0:
\* the feed of a non-zero inlet concentration no longer enters, and the
\* moles present are not drawn off
C21_Witness ==
    /\ Ended("ODE") /\ ret.error = ""
    /\ self.reactor_type = "Fed-batch"
    /\ RLt(self.initial_volume, self.volume)
    /\ RGt(call.x, Zero)
    /\ ~Filling
    /\ \E i \in 1..Len(call.y) : call.y[i] # Zero
    /\ \E i \in 1..Len(self.inlet_concentrations_dict) :
          self.inlet_concentrations_dict[i][2] # Zero
    /\ ret.value = VScale(ODERates(self, call.x, call.y), self.volume)

\* C22: the concentrations run returns are, at every sample, those that
\* calculate_concentration gives for the sampled state and coordinate,
\* the zero-volume guard included: for a Fed-batch or CSTR reactor whose
\* current volume is 0 at a sample, every concentration returned for that
\* sample is zero
C22_ReturnedConcentrationsFollowRule ==
    (Ended("run") /\ ret.error = "" /\ self.reactor_type \in KnownTypes)
    => \A i \in 1..Len(sim.t) : \A j \in 1..Len(ret.value[2]) :
          /\ ret.value[2][j][2][i]
                = calculate_concentration(self, sim.t[i], sim.y[i])[j]
          /\ (/\ self.reactor_type \in {"Fed-batch", "CSTR"}
              /\ RAdd(self.initial_volume, RMul(self.flow_rate, sim.t[i])) = Zero)
             => ret.value[2][j][2][i] = Zero

\* C23: in every regime, the coordinate and the four snapshots that
\* find_steady_state returns are taken at one sample index of one simulated
\* trajectory, the coordinate being the sample coordinate at that index
C23_SnapshotsAtReturnedCoordinate ==
    (Ended("find_steady_state") /\ ret.error = "")
    => \E i \in 1..Len(sim.t) :
          /\ ret.value[1] = sim.t[i]
          /\ \A k \in 2..5 : ret.value[k] = PickDict(FullOutput(self, sim)[k], i)

\* C24: every constructed reactor has one of the four type tags Batch,
\* Fed-batch, CSTR and PFR, fixed at construction; construction with any other
\* tag fails
C24_TypeTagIsOneOfFour ==
    pc = "idle"
    => /\ self.reactor_type = args.reactor_type
       /\ self.reactor_type \in KnownTypes

\* C25: for a Batch reactor the outcome of construction depends only on
\* volume, reactions and the bulk mapping: with those three fixed it is the
\* same for every initial_volume, flow_rate and inlet mapping
C25_BatchIgnoresFlowArguments ==
    (pc \in {"idle", "failed"} /\ args.reactor_type = "Batch")
    => \A iv \in CtorInitialVolumes : \A f \in CtorFlowRates :
          \A inlet \in CtorDicts :
             (pc = "idle")
             <=> ReactorInitError(Args("Batch", args.volume, args.reactions,
                                       args.initial_bulk_concentrations_dict,
                                       iv, f, inlet)) = ""

\* the reactor of type t built from the arguments of this reactor
BuiltAs(t) == ReactorInitSelf([args EXCEPT !.reactor_type = t])

\* C26: a Fed-batch reactor and a CSTR built from the same arguments have
\* the same initial state and the same right-hand side at every (x, y) with
\* initial_volume + flow_rate*x < volume
C26_FedBatchIsCSTRWhileFilling ==
    (/\ Ended("ODE")
     /\ self.reactor_type \in {"Fed-batch", "CSTR"}
     /\ Filling)
    => /\ ReactorInitError([args EXCEPT !.reactor_type = "Fed-batch"]) = ""
       /\ ReactorInitError([args EXCEPT !.reactor_type = "CSTR"]) = ""
       /\ initial_y(BuiltAs("Fed-batch")) = initial_y(BuiltAs("CSTR"))
       /\ ODEError(BuiltAs("Fed-batch"), call.x, call.y)
             = ODEError(BuiltAs("CSTR"), call.x, call.y)
       /\ ret.error = ""
          => /\ ret.value = ODE(BuiltAs("Fed-batch"), call.x, call.y)
             /\ ret.value = ODE(BuiltAs("CSTR"), call.x, call.y)

\* dy/dx of a full vessel: no inlet term for a Fed-batch reactor, the inlet
\* and the outlet term for a CSTR
FullVesselRate ==
    IF self.reactor_type = "Fed-batch"
    THEN VScale(ODERates(self, call.x, call.y), self.volume)
    ELSE VSub(VAdd(VScale(ODERates(self, call.x, call.y), self.volume),
                   VScale(Values(self.inlet_concentrations_dict),
                          self.flow_rate)),
              VScale(VDivide(call.y, self.volume), self.flow_rate))

\* C27: for a constructed Fed-batch or CSTR reactor the current volume
\* min(initial_volume + flow_rate*x, volume) stays within
\* [initial_volume, volume] and does not decrease with x; once the vessel is
\* full at some x it is full at every later x, where dy/dx has no Fed-batch
\* inlet term and has the CSTR outlet term
C27_CurrentVolumeMonotone ==
    (Ended("ODE") /\ self.reactor_type \in {"Fed-batch", "CSTR"})
    => \A x \in ODECoordinates :
          /\ RLe(self.initial_volume, CurrentVolume(self, x))
          /\ RLe(CurrentVolume(self, x), self.volume)
          /\ RLe(x, call.x)
             => /\ RLe(CurrentVolume(self, x), CurrentVolume(self, call.x))
                /\ CurrentVolume(self, x) = self.volume
                   => /\ CurrentVolume(self, call.x) = self.volume
                      /\ ret.error = "" => ret.value = FullVesselRate

\* a vessel that fills between two coordinates and is evaluated after them
C27_Witness ==
    /\ Ended("ODE") /\ ret.error = ""
    /\ self.reactor_type \in {"Fed-batch", "CSTR"}
    /\ \E x1 \in ODECoordinates : \E x2 \in ODECoordinates :
          /\ RLt(x1, x2) /\ RLt(x2, call.x)
          /\ RLt(CurrentVolume(self, x1), self.volume)
          /\ RLt(self.initial_volume, CurrentVolume(self, x1))
          /\ CurrentVolume(self, x2) = self.volume
    /\ ret.value = FullVesselRate
    /\ \E i \in 1..Len(ret.value) : ret.value[i] # Zero

====
